---------------------------- MODULE Spec2Model ----------------------------
(***************************************************************************)
(* A model of the CVT timing generator of cvt-utils (src/cvt-utils/src/    *)
(* lib.rs): CvtTimings::generate, get_aspect_ratio and                     *)
(* CvtTimings::generate_modeline.                                          *)
(*                                                                         *)
(* The code computes in f64.  The model computes the same expressions in   *)
(* exact rational arithmetic: a number is a pair <<n, d>> in lowest terms  *)
(* with d > 0; <<1, 0>>, <<-1, 0>> and <<0, 0>> stand for +inf, -inf and   *)
(* NaN, which f64 division by zero produces.  floor, round and the         *)
(* `as u32` casts are modelled by what they do to the value.  The f64      *)
(* rounding error of the individual operations (at most one unit in the    *)
(* last place each) is not modelled.                                       *)
(***************************************************************************)
EXTENDS Integers, Sequences, FiniteSets, TLC

(***************************************************************************)
(* Rational arithmetic.                                                    *)
(***************************************************************************)
Abs(n) == IF n < 0 THEN -n ELSE n

Sign(n) == IF n < 0 THEN -1 ELSE IF n > 0 THEN 1 ELSE 0

RECURSIVE GCD(_, _)
GCD(a, b) == IF b = 0 THEN a ELSE GCD(b, a % b)

\* n / d in lowest terms; a zero denominator gives the f64 result of x / 0.0.
Rat(n, d) ==
    IF d = 0 THEN <<Sign(n), 0>>
    ELSE LET g == GCD(Abs(n), Abs(d))
         IN  <<Sign(d) * (n \div g), Abs(d) \div g>>

I(n) == <<n, 1>>

NaN == <<0, 0>>

IsFinite(x) == x[2] # 0

IsInt(x) == x[2] = 1

RNeg(x) == <<-x[1], x[2]>>

RAdd(x, y) ==
    IF ~IsFinite(x) \/ ~IsFinite(y)
    THEN (IF IsFinite(y) THEN x
          ELSE IF IsFinite(x) \/ x = y THEN y ELSE NaN)
    ELSE LET g == GCD(x[2], y[2])
         IN  Rat(x[1] * (y[2] \div g) + y[1] * (x[2] \div g), (x[2] \div g) * y[2])

RSub(x, y) == RAdd(x, RNeg(y))

\* The factors are reduced crosswise before they are multiplied, so that the
\* intermediate products stay small.
RMul(x, y) ==
    IF ~IsFinite(x) \/ ~IsFinite(y)
    THEN <<(IF x[1] * y[1] = 0 THEN 0 ELSE Sign(x[1]) * Sign(y[1])), 0>>
    ELSE LET g1 == GCD(Abs(x[1]), y[2])
             g2 == GCD(Abs(y[1]), x[2])
         IN  <<(x[1] \div g1) * (y[1] \div g2), (x[2] \div g2) * (y[2] \div g1)>>

RInv(x) ==
    IF ~IsFinite(x) THEN (IF x[1] = 0 THEN NaN ELSE I(0))
    ELSE IF x[1] = 0 THEN <<1, 0>>
    ELSE <<Sign(x[1]) * x[2], Abs(x[1])>>

RDiv(x, y) ==
    IF IsFinite(x) /\ IsFinite(y) /\ y[1] = 0
    THEN <<Sign(x[1]), 0>>
    ELSE RMul(x, RInv(y))

\* The order of a / b and c / d (b, d > 0): -1, 0 or 1.  The integer parts are
\* compared first and then, the other way round, the reciprocals of the
\* fractional parts: no product is formed.
RECURSIVE Cmp(_, _, _, _)
Cmp(a, b, c, d) ==
    LET qa == a \div b
        qc == c \div d
        ra == a % b
        rc == c % d
    IN  IF qa # qc THEN (IF qa < qc THEN -1 ELSE 1)
        ELSE IF ra = 0 \/ rc = 0
             THEN (IF ra = rc THEN 0 ELSE IF ra = 0 THEN -1 ELSE 1)
             ELSE -Cmp(b, ra, d, rc)

\* x < y; a comparison with NaN is false, as in f64.
RLt(x, y) ==
    IF x = NaN \/ y = NaN THEN FALSE
    ELSE IF ~IsFinite(x) THEN x[1] < 0 /\ x # y
    ELSE IF ~IsFinite(y) THEN y[1] > 0
    ELSE Cmp(x[1], x[2], y[1], y[2]) < 0

RLe(x, y) == x = y \/ RLt(x, y)

\* f64::floor
RFloor(x) == IF IsFinite(x) THEN I(x[1] \div x[2]) ELSE x

\* f64::round: to the nearest integer, halves away from zero.
RRound(x) ==
    IF ~IsFinite(x) THEN x
    ELSE LET a == Abs(x[1])
             q == a \div x[2]
             r == a % x[2]
         IN  I(Sign(x[1]) * (IF 2 * r >= x[2] THEN q + 1 ELSE q))

\* `x as u32`: truncation toward zero, NaN and negative values give 0.  (The
\* saturation at 2^32 - 1 is out of the range of the values modelled.)
AsU32(x) == IF ~IsFinite(x) \/ x[1] < 0 THEN 0 ELSE x[1] \div x[2]


(***************************************************************************)
(* The constants of generate.                                              *)
(***************************************************************************)
min_v_bporch == 6

rb_min_v_blank == 460

cell_gran == 8

\* 1.8
margin_per == <<9, 5>>

min_vsync_bp == 550

min_v_porch_rnd == 3

c_prime == 30

m_prime == 300

\* 0.08
h_sync_per == <<2, 25>>

BlankingMode == {"Normal", "Reduced", "ReducedV2"}

\* The constants the match on blanking_mode selects.
ModeParams(blanking_mode) ==
    CASE blanking_mode = "Normal" ->
           [clock_step |-> <<1, 4>>, rb_h_blank |-> 160, rb_v_fporch |-> 3,
            refresh_multiplier |-> I(1), h_pol |-> FALSE, v_pol |-> TRUE]
      [] blanking_mode = "Reduced" ->
           [clock_step |-> <<1, 4>>, rb_h_blank |-> 160, rb_v_fporch |-> 3,
            refresh_multiplier |-> I(1), h_pol |-> TRUE, v_pol |-> FALSE]
      [] blanking_mode = "ReducedV2" ->
           [clock_step |-> <<1, 1000>>, rb_h_blank |-> 80, rb_v_fporch |-> 1,
            refresh_multiplier |-> I(1), h_pol |-> TRUE, v_pol |-> FALSE]

(***************************************************************************)
(* get_aspect_ratio.  Each candidate width is                              *)
(*   cell_gran_rnd * (ver_pixels * a / b).floor() / cell_gran_rnd,         *)
(* the floor taken before the division by the cell granularity.            *)
(***************************************************************************)
HorPixels(ver_pixels, a, b, cell_gran_rnd) ==
    RDiv(RMul(cell_gran_rnd, RFloor(RDiv(RMul(ver_pixels, I(a)), I(b)))),
         cell_gran_rnd)

get_aspect_ratio(interlaced, v_lines_rnd, h_pixels_rnd, cell_gran_rnd) ==
    LET ver_pixels == IF interlaced THEN RMul(I(2), v_lines_rnd) ELSE v_lines_rnd
        hor(a, b)  == HorPixels(ver_pixels, a, b, cell_gran_rnd)
    IN  IF hor(4, 3) = h_pixels_rnd THEN "Aspect4by3"
        ELSE IF hor(16, 9) = h_pixels_rnd THEN "Aspect16by9"
        ELSE IF hor(16, 10) = h_pixels_rnd THEN "Aspect16by10"
        ELSE IF hor(5, 4) = h_pixels_rnd THEN "Aspect5by4"
        ELSE IF hor(15, 9) = h_pixels_rnd THEN "Aspect15by9"
        ELSE IF hor(43, 18) = h_pixels_rnd THEN "Aspect43by18"
        ELSE IF hor(64, 27) = h_pixels_rnd THEN "Aspect64by27"
        ELSE IF hor(12, 5) = h_pixels_rnd THEN "Aspect12by5"
        ELSE "AspectUnknown"

\* v_sync_rnd: 8 in ReducedV2, otherwise looked up from the aspect ratio.
VSyncRnd(blanking_mode, interlaced, v_lines_rnd, h_pixels_rnd, cell_gran_rnd) ==
    IF blanking_mode = "ReducedV2" THEN I(8)
    ELSE LET aspect_ratio ==
                 get_aspect_ratio(interlaced, v_lines_rnd, h_pixels_rnd, cell_gran_rnd)
         IN  CASE aspect_ratio = "Aspect4by3" -> I(4)
               [] aspect_ratio = "Aspect16by9" -> I(5)
               [] aspect_ratio = "Aspect16by10" -> I(6)
               [] aspect_ratio = "Aspect5by4" -> I(7)
               [] aspect_ratio = "Aspect15by9" -> I(7)
               [] OTHER -> I(10)

(***************************************************************************)
(* CvtTimings::generate.                                                   *)
(***************************************************************************)

\* h_blank of the Normal branch: below a 20% duty cycle the quotient is not
\* floored before it is multiplied back by 2 * cell_gran_rnd; from 20% on it is.
HBlankNormal(total_active_pixels, ideal_duty_cycle, cell_gran_rnd) ==
    LET two_cells == RMul(I(2), cell_gran_rnd)
    IN  IF RLt(ideal_duty_cycle, I(20))
        THEN RMul(RDiv(RDiv(RMul(I(total_active_pixels), I(20)), RSub(I(100), I(20))),
                       two_cells),
                  two_cells)
        ELSE RMul(RFloor(RDiv(RDiv(RMul(I(total_active_pixels), ideal_duty_cycle),
                                   RSub(I(100), ideal_duty_cycle)),
                              two_cells)),
                  two_cells)

\* A variant of ActPixFreq that rounds to the nearest step instead of down.
ActPixFreqNearest(clock_step, freq_est) ==
    RMul(clock_step, RRound(RDiv(freq_est, clock_step)))

\* act_pix_freq = clock_step * (estimate / clock_step).floor()
ActPixFreq(clock_step, freq_est) ==
    RMul(clock_step, RFloor(RDiv(freq_est, clock_step)))

\* h_sync and h_back_porch of the Reduced and ReducedV2 branches.
RbHSync(blanking_mode) == I(32)

\* A variant of RbHBackPorch that does not tell ReducedV2 from Reduced.
RbHBackPorchSame(blanking_mode) == I(80)

RbHBackPorch(blanking_mode) ==
    IF blanking_mode = "ReducedV2" THEN I(40) ELSE I(80)

\* (f * 100.0).round() / 100.0: f rounded to two decimals, halves away from
\* zero.  The two decimals are taken by long division, which keeps the terms
\* small; the value is that of RDiv(RRound(RMul(f, I(100))), I(100)).
Round2(f) ==
    IF ~IsFinite(f) THEN f
    ELSE LET a  == Abs(f[1])
             q  == a \div f[2]
             r0 == a % f[2]
             d1 == (10 * r0) \div f[2]
             r1 == (10 * r0) % f[2]
             d2 == (10 * r1) \div f[2]
             r2 == (10 * r1) % f[2]
             up == IF 2 * r2 >= f[2] THEN 1 ELSE 0
         IN  Rat(Sign(f[1]) * (100 * q + 10 * d1 + d2 + up), 100)

\* A variant of Period that inverts the frequency as rounded for the result.
PeriodOfRounded(freq) == RDiv(I(1), Round2(freq))

\* 1.0 / freq, of the local (unrounded) frequency
Period(freq) == RDiv(I(1), freq)

(***************************************************************************)
(* generate's locals are computed in the order of the code, a few          *)
(* statements at a time: each operator below takes the record l of the     *)
(* locals assigned so far and adds the ones its statements assign.         *)
(***************************************************************************)

\* The arguments, the match on blanking_mode, and the rounded sizes.
\* refresh_rate is a rational; the other arguments are as in the code.
CommonRounding(h_pixels, v_pixels, refresh_rate, blanking_mode, margins, interlaced) ==
    LET mp == ModeParams(blanking_mode)
        cell_gran_rnd == RFloor(I(cell_gran))
    IN  [blanking_mode |-> blanking_mode,
         margins |-> margins,
         interlaced |-> interlaced,
         clock_step |-> mp.clock_step,
         rb_h_blank |-> mp.rb_h_blank,
         rb_v_fporch |-> mp.rb_v_fporch,
         refresh_multiplier |-> mp.refresh_multiplier,
         h_pol |-> mp.h_pol,
         v_pol |-> mp.v_pol,
         cell_gran_rnd |-> cell_gran_rnd,
         v_field_rate_rqd |->
             IF interlaced THEN RMul(refresh_rate, I(2)) ELSE refresh_rate,
         h_pixels_rnd |->
             RMul(RFloor(RDiv(I(h_pixels), cell_gran_rnd)), cell_gran_rnd),
         v_lines_rnd |->
             IF interlaced THEN RFloor(RDiv(I(v_pixels), I(2)))
             ELSE RFloor(I(v_pixels)),
         interlace |-> IF interlaced THEN <<1, 2>> ELSE I(0)]

\* left_margin (= right_margin) and top_margin (= bot_margin).
Margins(l) ==
    l @@ [left_margin |->
              IF l.margins
              THEN RMul(RFloor(RDiv(RDiv(RMul(l.h_pixels_rnd, margin_per), I(100)),
                                    l.cell_gran_rnd)),
                        l.cell_gran_rnd)
              ELSE I(0),
          top_margin |->
              IF l.margins
              THEN RFloor(RDiv(RMul(l.v_lines_rnd, margin_per), I(100)))
              ELSE I(0)]

\* total_active_pixels and v_sync_rnd.
ActiveAndVSync(l) ==
    l @@ [total_active_pixels |->
              AsU32(RFloor(RAdd(RAdd(l.h_pixels_rnd, l.left_margin), l.left_margin))),
          v_sync_rnd |->
              VSyncRnd(l.blanking_mode, l.interlaced, l.v_lines_rnd, l.h_pixels_rnd,
                       l.cell_gran_rnd)]

\* ---- the Normal branch

NormalHPeriodEst(l) ==
    l @@ [h_period_est |->
              RMul(RDiv(RSub(RDiv(I(1), l.v_field_rate_rqd),
                             RDiv(I(min_vsync_bp), I(1000000))),
                        RAdd(RAdd(RAdd(l.v_lines_rnd, RMul(I(2), l.top_margin)),
                                  I(min_v_porch_rnd)),
                             l.interlace)),
                   I(1000000))]

NormalVSyncBp(l) ==
    LET v_sync_bp == RAdd(RFloor(RDiv(I(min_vsync_bp), l.h_period_est)), I(1))
        least == RAdd(l.v_sync_rnd, I(min_v_bporch))
    IN  l @@ [v_sync_bp |-> IF RLt(v_sync_bp, least) THEN least ELSE v_sync_bp,
              ideal_duty_cycle |->
                  RSub(I(c_prime), RDiv(RMul(I(m_prime), l.h_period_est), I(1000)))]

NormalVertical(l) ==
    l @@ [v_blank |-> RAdd(l.v_sync_bp, I(min_v_porch_rnd)),
          v_front_porch |-> I(min_v_porch_rnd),
          v_back_porch |-> RSub(l.v_sync_bp, l.v_sync_rnd),
          total_v_lines |->
              RAdd(RAdd(RAdd(RAdd(RAdd(l.v_lines_rnd, l.top_margin), l.top_margin),
                             l.v_sync_bp),
                        l.interlace),
                   I(min_v_porch_rnd)),
          h_blank |->
              HBlankNormal(l.total_active_pixels, l.ideal_duty_cycle, l.cell_gran_rnd)]

NormalTotalPixels(l) ==
    l @@ [total_pixels |-> RAdd(I(l.total_active_pixels), l.h_blank)]

NormalHSync(l) ==
    l @@ [h_sync |->
              RMul(RFloor(RDiv(RMul(h_sync_per, l.total_pixels), l.cell_gran_rnd)),
                   l.cell_gran_rnd),
          h_back_porch |-> RDiv(l.h_blank, I(2)),
          freq_est |-> RDiv(l.total_pixels, l.h_period_est)]

\* ---- the Reduced and ReducedV2 branch

ReducedHPeriodEst(l) ==
    l @@ [h_period_est |->
              RDiv(RSub(RDiv(I(1000000), l.v_field_rate_rqd), I(rb_min_v_blank)),
                   RAdd(RAdd(l.v_lines_rnd, l.top_margin), l.top_margin)),
          h_blank |-> I(l.rb_h_blank),
          ideal_duty_cycle |-> NaN]

\* vbi_lines is the quotient plus one, not floored.
ReducedVbiLines(l) ==
    LET vbi_lines == RAdd(RDiv(I(rb_min_v_blank), l.h_period_est), I(1))
        rb_min_vbi == RAdd(RAdd(I(l.rb_v_fporch), l.v_sync_rnd), I(min_v_bporch))
    IN  l @@ [act_vbi_lines |->
                  IF RLt(vbi_lines, rb_min_vbi) THEN rb_min_vbi ELSE vbi_lines]

ReducedTotals(l) ==
    l @@ [total_v_lines |->
              RAdd(RAdd(RAdd(RAdd(l.act_vbi_lines, l.v_lines_rnd), l.top_margin),
                        l.top_margin),
                   l.interlace),
          total_pixels |-> I(l.rb_h_blank + l.total_active_pixels)]

\* The estimate is v_field_rate_rqd * total_v_lines * total_pixels / 1000000.0
\* * refresh_multiplier; total_pixels is divided by 1000000 before it is
\* multiplied in, which gives the same rational with smaller terms.
ReducedFreqEst(l) ==
    l @@ [freq_est |->
              RMul(RMul(RMul(l.v_field_rate_rqd, l.total_v_lines),
                        RDiv(l.total_pixels, I(1000000))),
                   l.refresh_multiplier),
          v_blank |-> l.act_vbi_lines,
          v_front_porch |->
              IF l.blanking_mode = "ReducedV2"
              THEN RSub(RSub(l.act_vbi_lines, l.v_sync_rnd), I(6))
              ELSE I(3),
          v_back_porch |->
              IF l.blanking_mode = "ReducedV2"
              THEN I(6)
              ELSE RSub(RSub(l.act_vbi_lines, I(3)), l.v_sync_rnd),
          h_sync |-> RbHSync(l.blanking_mode),
          h_back_porch |-> RbHBackPorch(l.blanking_mode)]

\* ---- both branches

HFrontPorch(l) ==
    l @@ [h_front_porch |-> RSub(RSub(l.h_blank, l.h_sync), l.h_back_porch),
          act_pix_freq |-> ActPixFreq(l.clock_step, l.freq_est)]

PClock(l) ==
    l @@ [pclock |-> RMul(l.act_pix_freq, I(1000000))]

Frequencies(l) ==
    l @@ [h_freq |-> RDiv(l.pclock, l.total_pixels),
          v_freq |-> RDiv(l.pclock, RMul(l.total_v_lines, l.total_pixels))]

\* The values of generate's local variables when it builds its result.
generate_locals(h_pixels, v_pixels, refresh_rate, blanking_mode, margins, interlaced) ==
    LET c == ActiveAndVSync(Margins(CommonRounding(h_pixels, v_pixels, refresh_rate,
                                                    blanking_mode, margins, interlaced)))
    IN  Frequencies(PClock(HFrontPorch(
            IF blanking_mode = "Normal"
            THEN NormalHSync(NormalTotalPixels(NormalVertical(NormalVSyncBp(
                     NormalHPeriodEst(c)))))
            ELSE ReducedFreqEst(ReducedTotals(ReducedVbiLines(ReducedHPeriodEst(c)))))))

\* The CvtTimings value generate returns, built from its locals.
CvtTimings(l, interlaced) ==
    [pixel_clock |-> l.pclock,
     h_active |-> l.total_active_pixels,
     h_blank |-> AsU32(l.h_blank),
     h_total |-> AsU32(l.total_pixels),
     v_active |-> AsU32(l.v_lines_rnd),
     v_blank |-> AsU32(l.v_blank),
     v_total |-> AsU32(l.total_v_lines),
     h_freq |-> Round2(l.h_freq),
     v_freq |-> Round2(l.v_freq),
     h_period |-> Period(l.h_freq),
     v_period |-> Period(l.v_freq),
     h_front_porch |-> AsU32(l.h_front_porch),
     h_sync |-> AsU32(l.h_sync),
     h_back_porch |-> AsU32(l.h_back_porch),
     h_sync_polarity |-> l.h_pol,
     v_front_porch |-> AsU32(l.v_front_porch),
     v_sync |-> AsU32(l.v_sync_rnd),
     v_back_porch |-> AsU32(l.v_back_porch),
     v_sync_polarity |-> l.v_pol,
     interlaced |-> interlaced]

generate(h_pixels, v_pixels, refresh_rate, blanking_mode, margins, interlaced) ==
    CvtTimings(generate_locals(h_pixels, v_pixels, refresh_rate, blanking_mode,
                               margins, interlaced),
               interlaced)

(***************************************************************************)
(* CvtTimings::generate_modeline.  The modeline is kept as its fields: the *)
(* name's parts, the numbers, and the three trailing tokens as the strings *)
(* the format prints.                                                      *)
(***************************************************************************)
HSyncToken(h_sync_polarity) == IF h_sync_polarity THEN "+HSync" ELSE "-HSync"

VSyncToken(v_sync_polarity) == IF v_sync_polarity THEN "+Vsync" ELSE "-VSync"

generate_modeline(self) ==
    [name |-> <<self.h_active, self.v_active, Round2(self.v_freq),
                IF self.interlaced THEN "i" ELSE "">>,
     clock |-> RDiv(RRound(RDiv(self.pixel_clock, I(1000))), I(1000)),
     h |-> <<self.h_active,
             self.h_active + self.h_front_porch,
             self.h_active + self.h_front_porch + self.h_sync,
             self.h_total>>,
     v |-> <<self.v_active,
             self.v_active + self.v_front_porch,
             self.v_active + self.v_front_porch + self.v_sync,
             self.v_total>>,
     hsync |-> HSyncToken(self.h_sync_polarity),
     vsync |-> VSyncToken(self.v_sync_polarity),
     interlace |-> IF self.interlaced THEN "Interlace" ELSE ""]

(***************************************************************************)
(* The inputs.  Widths and heights are multiples of a step; the refresh    *)
(* period is a multiple of the 460 us of rb_min_v_blank (36 * 460 us is    *)
(* 60.39 Hz, 37 * 460 us is 58.75 Hz, ...), which keeps the denominators   *)
(* of the reduced-blanking branch small.                                   *)
(***************************************************************************)
HStep == 107

MaxHSteps == 6

VStep == 160

MaxVSteps == 3

FirstPeriod == 36

LastPeriod == 38

HPixels == {HStep * i : i \in 1..MaxHSteps}

VPixels == {VStep * j : j \in 1..MaxVSteps}

RefreshRates == {Rat(1000000, rb_min_v_blank * m) : m \in FirstPeriod..LastPeriod}

Inputs ==
    [h_pixels : HPixels, v_pixels : VPixels, refresh_rate : RefreshRates,
     blanking_mode : BlankingMode, margins : BOOLEAN, interlaced : BOOLEAN]

(***************************************************************************)
(* The state: the arguments of the next or latest call, the latest calls   *)
(* of generate (at most two, the newest last; each with its arguments, the *)
(* values of its locals and the CvtTimings it returned) and the modeline   *)
(* rendered from the newest result (<<>> before generate_modeline ran).    *)
(***************************************************************************)
VARIABLES args, calls, modeline

vars == <<args, calls, modeline>>

Init ==
    /\ args \in Inputs
    /\ calls = <<>>
    /\ modeline = <<>>

Invocation(a) ==
    [args |-> a,
     locals |-> generate_locals(a.h_pixels, a.v_pixels, a.refresh_rate,
                                a.blanking_mode, a.margins, a.interlaced),
     timings |-> generate(a.h_pixels, a.v_pixels, a.refresh_rate,
                          a.blanking_mode, a.margins, a.interlaced)]

\* A call of generate with the arguments a; the call before it is kept.
Call(a) ==
    /\ args' = a
    /\ calls' = IF calls = <<>> THEN <<Invocation(a)>>
                ELSE <<calls[Len(calls)], Invocation(a)>>
    /\ modeline' = <<>>

\* The first call.
Generate ==
    /\ calls = <<>>
    /\ Call(args)

\* A further call that differs in the refresh rate alone.
GenerateOtherRate ==
    /\ calls # <<>>
    /\ \E r \in RefreshRates \ {args.refresh_rate} :
           Call([args EXCEPT !.refresh_rate = r])

\* A further call that differs in the margins flag alone.
GenerateOtherMargins ==
    /\ calls # <<>>
    /\ Call([args EXCEPT !.margins = ~args.margins])

\* generate_modeline on the newest result.
GenerateModeline ==
    /\ calls # <<>>
    /\ modeline = <<>>
    /\ modeline' = <<generate_modeline(calls[Len(calls)].timings)>>
    /\ UNCHANGED <<args, calls>>

Next ==
    \/ Generate
    \/ GenerateOtherRate
    \/ GenerateOtherMargins
    \/ GenerateModeline

Spec == Init /\ [][Next]_vars

(***************************************************************************)
(* The claims.                                                             *)
(***************************************************************************)
Called == calls # <<>>

Cur == calls[Len(calls)]

\* pixel_clock in MHz
PixelClockMHz(t) == RDiv(t.pixel_clock, I(1000000))

\* C1: every result of generate has h_total = h_active + h_front_porch + h_sync
\* + h_back_porch and v_total = v_active + v_front_porch + v_sync + v_back_porch.
C1_GeometricInvariant ==
    \A i \in 1..Len(calls) :
        LET t == calls[i].timings
        IN  /\ t.h_total = t.h_active + t.h_front_porch + t.h_sync + t.h_back_porch
            /\ t.v_total = t.v_active + t.v_front_porch + t.v_sync + t.v_back_porch

\* C2: of two calls that differ in the refresh rate alone, the one with the
\* higher rate returns a pixel_clock that is not smaller.
C2_MonotonicClock ==
    (/\ Len(calls) = 2
     /\ calls[1].args = [calls[2].args EXCEPT !.refresh_rate = calls[1].args.refresh_rate]
     /\ RLt(calls[1].args.refresh_rate, calls[2].args.refresh_rate))
    => RLe(calls[1].timings.pixel_clock, calls[2].timings.pixel_clock)

\* C3: when the rounded width equals the 4:3 width of the vertical size,
\* floored to a multiple of the 8-pixel cell, get_aspect_ratio returns
\* Aspect4by3 and generate returns v_sync = 4 in Normal and Reduced mode.
C3_AspectExactness ==
    \A i \in 1..Len(calls) :
        LET l == calls[i].locals
            ver_pixels == IF l.interlaced THEN 2 * AsU32(l.v_lines_rnd)
                          ELSE AsU32(l.v_lines_rnd)
            aligned_4_3 == cell_gran * (((ver_pixels * 4) \div 3) \div cell_gran)
        IN  l.h_pixels_rnd = I(aligned_4_3)
            => /\ get_aspect_ratio(l.interlaced, l.v_lines_rnd, l.h_pixels_rnd,
                                   l.cell_gran_rnd) = "Aspect4by3"
               /\ l.blanking_mode \in {"Normal", "Reduced"}
                  => calls[i].timings.v_sync = 4

\* C4: in every result of generate the six horizontal fields are multiples of
\* 8 pixels (the fixed ReducedV2 values 32, 40 and 8 are such multiples too).
C4_CellAlignment ==
    \A i \in 1..Len(calls) :
        LET t == calls[i].timings
        IN  \A n \in {t.h_total, t.h_active, t.h_blank, t.h_front_porch, t.h_sync,
                      t.h_back_porch} : n % cell_gran = 0

C6_MarginsEffect ==
    (/\ Len(calls) = 2
     /\ ~calls[1].args.margins
     /\ calls[2].args = [calls[1].args EXCEPT !.margins = TRUE])
    => LET h_rounded == AsU32(calls[1].locals.h_pixels_rnd)
           v_rounded == AsU32(calls[1].locals.v_lines_rnd)
           h_growth == 2 * cell_gran * ((h_rounded * 18) \div (1000 * cell_gran))
           v_growth == 2 * ((v_rounded * 18) \div 1000)
       IN  /\ calls[2].timings.h_active = calls[1].timings.h_active + h_growth
           /\ calls[2].timings.v_active = calls[1].timings.v_active + v_growth
           /\ h_growth > 0
           /\ v_growth > 0

\* C7: generate_modeline renders the polarities as +HSync or -HSync and as
\* +VSync or -VSync: -HSync and +VSync for Normal, +HSync and -VSync for
\* Reduced and ReducedV2.
C7_PolarityTokens ==
    modeline # <<>>
    => LET m == modeline[1]
           normal == Cur.args.blanking_mode = "Normal"
       IN  /\ m.hsync \in {"+HSync", "-HSync"}
           /\ m.vsync \in {"+VSync", "-VSync"}
           /\ m.hsync = IF normal THEN "-HSync" ELSE "+HSync"
           /\ m.vsync = IF normal THEN "+VSync" ELSE "-VSync"

\* C8: ReducedV2 returns h_sync = 32, h_back_porch = 40 and h_blank = 80,
\* Reduced returns h_sync = 32, h_back_porch = 80 and h_blank = 160, and in
\* both h_front_porch = h_blank - h_sync - h_back_porch.
C8_FixedFields ==
    \A i \in 1..Len(calls) :
        LET t == calls[i].timings
            mode == calls[i].args.blanking_mode
        IN  /\ mode = "ReducedV2"
               => t.h_sync = 32 /\ t.h_back_porch = 40 /\ t.h_blank = 80
            /\ mode = "Reduced"
               => t.h_sync = 32 /\ t.h_back_porch = 80 /\ t.h_blank = 160
            /\ mode # "Normal"
               => t.h_front_porch = t.h_blank - t.h_sync - t.h_back_porch

\* A ReducedV2 result after a Reduced-family call sequence: 8 + 32 + 40 = 80.
C8_Witness ==
    /\ Len(calls) = 2
    /\ Cur.args.blanking_mode = "ReducedV2"
    /\ Cur.timings.h_front_porch = 8
    /\ Cur.timings.h_sync = 32
    /\ Cur.timings.h_back_porch = 40

C10_NeverFaster ==
    \A i \in 1..Len(calls) :
        LET t == calls[i].timings
        IN  ~calls[i].args.interlaced
            => RLe(RDiv(t.pixel_clock, I(t.h_total * t.v_total)),
                   calls[i].args.refresh_rate)

=============================================================================
